---------------------------- MODULE Spec2Model ----------------------------
(***************************************************************************)
(* A model of the numerical core of kvantum (src/utils/heston.ts):         *)
(*   runHestonSimulation      the Heston Monte Carlo path simulator        *)
(*   calculateGreeks          the closed-form sensitivity estimator        *)
(*   calculateQuantumMetrics  the analytic quantum resource estimator     *)
(*                                                                         *)
(* Numbers.  A JavaScript number is an IEEE-754 double.  The model keeps   *)
(* the three non-finite values (NaN, +Infinity, -Infinity) with their      *)
(* IEEE-754 rules, and represents a finite value on the decimal grid of    *)
(* multiples of 1/Q: every arithmetic operation computes the exact result  *)
(* and rounds it to the nearest grid point (ties to even), as the IEEE     *)
(* operations do on the grid of doubles.  Finite magnitudes stay far from  *)
(* the overflow and underflow thresholds of a double, so overflow to       *)
(* Infinity and gradual underflow are outside the model.                   *)
(***************************************************************************)
EXTENDS Integers, Sequences, FiniteSets, TLC

----------------------------------------------------------------------------
(* The number type (src/types.ts: every numeric field is a `number`).     *)

Q == 10^4

Fin(n) == [k |-> "fin", n |-> n]
NaN == [k |-> "nan", n |-> 0]
PInf == [k |-> "inf", n |-> 1]
NInf == [k |-> "inf", n |-> -1]

IsFin(x) == x.k = "fin"
IsNaN(x) == x.k = "nan"
IsInf(x) == x.k = "inf"

Num(i) == Fin(i * Q)

Sgn(n) == IF n > 0 THEN 1 ELSE IF n < 0 THEN -1 ELSE 0

AbsInt(n) == IF n < 0 THEN -n ELSE n

\* whole + num / den for integers, den > 0, rounded to the nearest integer,
\* ties to even
RoundAdd(whole, num, den) ==
    LET f == whole + (num \div den)
        r == num % den
    IN  IF 2 * r < den THEN f
        ELSE IF 2 * r > den THEN f + 1
        ELSE IF f % 2 = 0 THEN f ELSE f + 1

\* a / b for integers, b > 0, rounded to the nearest integer, ties to even
RoundDiv(a, b) == RoundAdd(0, a, b)

\* a * b / Q rounded to the nearest integer, ties to even; the product is
\* taken by parts so that only the result has to fit a machine integer
MulQ(a, b) ==
    LET ah == a \div Q
        al == a % Q
        bh == b \div Q
        bl == b % Q
    IN  RoundAdd(ah * bh * Q + ah * bl + al * bh, al * bl, Q)

\* a * Q / b for b > 0 rounded to the nearest integer, ties to even; by long
\* division, two decimal digits at a time, so that a * Q need not fit a
\* machine integer
DivQ(a, b) ==
    LET r0 == a % b
        r1 == (r0 * 100) % b
    IN  RoundAdd((a \div b) * Q + ((r0 * 100) \div b) * 100, r1 * 100, b)

Inf(s) == IF s >= 0 THEN PInf ELSE NInf

\* x + y
FAdd(x, y) ==
    IF IsNaN(x) \/ IsNaN(y) THEN NaN
    ELSE IF IsInf(x) /\ IsInf(y) THEN (IF x.n = y.n THEN x ELSE NaN)
    ELSE IF IsInf(x) THEN x
    ELSE IF IsInf(y) THEN y
    ELSE Fin(x.n + y.n)

\* -x
FNeg(x) ==
    IF IsNaN(x) THEN NaN
    ELSE IF IsInf(x) THEN Inf(-x.n)
    ELSE Fin(-x.n)

\* x - y
FSub(x, y) == FAdd(x, FNeg(y))

\* x * y
FMul(x, y) ==
    IF IsNaN(x) \/ IsNaN(y) THEN NaN
    ELSE IF IsInf(x) \/ IsInf(y)
         THEN (IF Sgn(x.n) * Sgn(y.n) = 0 THEN NaN ELSE Inf(Sgn(x.n) * Sgn(y.n)))
    ELSE Fin(MulQ(x.n, y.n))

\* x / y
FDiv(x, y) ==
    IF IsNaN(x) \/ IsNaN(y) THEN NaN
    ELSE IF IsInf(x) /\ IsInf(y) THEN NaN
    ELSE IF IsInf(x) THEN Inf(x.n * (IF y.n < 0 THEN -1 ELSE 1))
    ELSE IF IsInf(y) THEN Fin(0)
    ELSE IF y.n = 0 THEN (IF x.n = 0 THEN NaN ELSE Inf(x.n))
    ELSE IF y.n > 0 THEN Fin(DivQ(x.n, y.n))
    ELSE Fin(DivQ(-x.n, -y.n))

\* x < y, x <= y, x > y  (false when either side is NaN)
FLt(x, y) ==
    IF IsNaN(x) \/ IsNaN(y) THEN FALSE
    ELSE IF IsInf(x) THEN x.n < 0 /\ ~(IsInf(y) /\ y.n < 0)
    ELSE IF IsInf(y) THEN y.n > 0
    ELSE x.n < y.n

FLe(x, y) == ~IsNaN(x) /\ ~IsNaN(y) /\ ~FLt(y, x)

FGt(x, y) == FLt(y, x)

\* Math.max(x, y)
FMax(x, y) ==
    IF IsNaN(x) \/ IsNaN(y) THEN NaN
    ELSE IF FLt(x, y) THEN y ELSE x

\* Math.abs(x)
FAbs(x) ==
    IF IsNaN(x) THEN NaN
    ELSE IF IsInf(x) THEN PInf
    ELSE Fin(AbsInt(x.n))

RECURSIVE SqrtSearch(_, _, _)
\* the largest s in lo..hi with s * s <= m
SqrtSearch(m, lo, hi) ==
    IF lo >= hi THEN lo
    ELSE LET mid == (lo + hi + 1) \div 2
         IN  IF mid * mid <= m THEN SqrtSearch(m, mid, hi)
             ELSE SqrtSearch(m, lo, mid - 1)

\* the integer nearest to the square root of m >= 0
ISqrt(m) ==
    LET s == SqrtSearch(m, 0, 46340)
    IN  IF m - s * s > s THEN s + 1 ELSE s

\* sqrt(n/Q) * Q for n >= 0; above 20 the radicand is scaled by 100, not by
\* Q, so that it fits a machine integer
SqrtFx(n) == IF n <= 20 * Q THEN ISqrt(n * Q) ELSE 10 * ISqrt(n * 100)

\* Math.sqrt(x)
FSqrt(x) ==
    IF IsNaN(x) THEN NaN
    ELSE IF IsInf(x) THEN (IF x.n > 0 THEN PInf ELSE NaN)
    ELSE IF x.n < 0 THEN NaN
    ELSE Fin(SqrtFx(x.n))

\* e^k on the grid, k in 0..2
EPow(k) == CASE k = 0 -> 10000 [] k = 1 -> 27183 [] k = 2 -> 73891

RECURSIVE ExpSeries(_, _, _, _)
\* sum of the Taylor terms f^j / j! for j >= the j of `term`, on the grid
ExpSeries(f, term, j, acc) ==
    IF term = 0 \/ j > 12 THEN acc
    ELSE ExpSeries(f, RoundDiv(term * f, Q * j), j + 1, acc + term)

\* e^(n/Q) * Q for 0 <= n < 3Q: argument reduction, then the Taylor series
ExpPos(n) == RoundDiv(ExpSeries(n % Q, Q, 1, 0) * EPow(n \div Q), Q)

RECURSIVE ExpFx(_)
\* e^(n/Q) * Q
ExpFx(n) ==
    IF n >= 0 THEN ExpPos(n)
    ELSE IF n > -3 * Q THEN RoundDiv(Q * Q, ExpPos(-n))
    ELSE IF n < -12 * Q THEN 0
    ELSE RoundDiv(ExpFx(n + 2 * Q) * 1353, Q)

\* Math.exp(x)
FExp(x) ==
    IF IsNaN(x) THEN NaN
    ELSE IF IsInf(x) THEN (IF x.n > 0 THEN PInf ELSE Fin(0))
    ELSE Fin(ExpFx(x.n))

\* ln(m/Q) * Q for m/Q in [0.7071, 1.4142): 2 atanh((x - 1) / (x + 1))
LogSeries(m) ==
    LET s  == RoundDiv((m - Q) * Q, m + Q)
        s2 == RoundDiv(s * s, Q)
        s3 == RoundDiv(s * s2, Q)
        s5 == RoundDiv(s3 * s2, Q)
        s7 == RoundDiv(s5 * s2, Q)
    IN  RoundDiv(2 * (105 * s + 35 * s3 + 21 * s5 + 15 * s7), 105)

RECURSIVE LogFx(_)
\* ln(n/Q) * Q for n > 0
LogFx(n) ==
    IF n >= 14142 THEN 6931 + LogFx(RoundDiv(n, 2))
    ELSE IF n < 7071 THEN LogFx(2 * n) - 6931
    ELSE LogSeries(n)

\* Math.log(x)
FLog(x) ==
    IF IsNaN(x) THEN NaN
    ELSE IF IsInf(x) THEN (IF x.n > 0 THEN PInf ELSE NaN)
    ELSE IF x.n < 0 THEN NaN
    ELSE IF x.n = 0 THEN NInf
    ELSE Fin(LogFx(x.n))


\* cos(m/Q) * Q for 0 <= m/Q <= pi/2: the Taylor series 1 - x^2/2! + x^4/4! - ...
CosSeries(m) ==
    LET x2 == RoundDiv(m * m, Q)
        t1 == RoundDiv(x2, 2)
        t2 == RoundDiv(t1 * x2, 12 * Q)
        t3 == RoundDiv(t2 * x2, 30 * Q)
        t4 == RoundDiv(t3 * x2, 56 * Q)
        t5 == RoundDiv(t4 * x2, 90 * Q)
    IN  Q - t1 + t2 - t3 + t4 - t5

\* cos(n/Q) * Q: reduction to [0, pi/2] by periodicity and symmetry
CosFx(n) ==
    LET a == AbsInt(n) % 62832
        b == IF a > 31416 THEN 62832 - a ELSE a
    IN  IF b > 15708 THEN -CosSeries(31416 - b) ELSE CosSeries(b)

\* Math.cos(x)
FCos(x) == IF IsFin(x) THEN Fin(CosFx(x.n)) ELSE NaN

\* Math.PI
PI == Fin(31416)

----------------------------------------------------------------------------
(* calculateGreeks(params, currentPrice), src/utils/heston.ts:100-147      *)

\* the standard normal density, heston.ts:108
pdf(x) ==
    FDiv(FExp(FMul(FMul(Fin(-5000), x), x)), FSqrt(FMul(Num(2), PI)))

\* the standard normal distribution function (rational approximation),
\* heston.ts:109-115
cdf(x) ==
    LET t == FDiv(Num(1), FAdd(Num(1), FMul(Fin(2316), FAbs(x))))
        d == FMul(Fin(3989), FExp(FDiv(FMul(FNeg(x), x), Num(2))))
        poly == FAdd(Fin(3194), FMul(t,
                FAdd(Fin(-3566), FMul(t,
                FAdd(Fin(17815), FMul(t,
                FAdd(Fin(-18213), FMul(t, Fin(13303)))))))))
        prob == FMul(FMul(d, t), poly)
    IN  IF FGt(x, Num(0)) THEN FSub(Num(1), prob) ELSE prob

\* heston.ts:102
GreeksVol(p) == FSqrt(p.theta)

\* the maturity taken as given, without the floor
SafeTUnfloored(p) == p.T

\* heston.ts:103
SafeT(p) == FMax(Fin(1), p.T)

\* the divisor vol * sqrt(safeT) of d1, heston.ts:105
D1Divisor(vol, safeT) == FMul(vol, FSqrt(safeT))

\* heston.ts:105
D1(p, vol, safeT) ==
    FDiv(FAdd(FLog(FDiv(p.S0, p.K)),
              FMul(FAdd(p.r, FMul(FMul(Fin(5000), vol), vol)), safeT)),
         D1Divisor(vol, safeT))

\* heston.ts:106
D2(d1, vol, safeT) == FSub(d1, FMul(vol, FSqrt(safeT)))

\* heston.ts:122
GreeksGamma(p, vol, safeT, d1) ==
    FDiv(pdf(d1), FMul(FMul(p.S0, vol), FSqrt(safeT)))

\* GreeksVega with the sign of a short-volatility position for a Put
GreeksVegaSigned(p, vol, safeT, d1) ==
    LET vega == FDiv(FMul(FMul(p.S0, FSqrt(safeT)), pdf(d1)), Num(100))
    IN  IF p.optionType = "Put" THEN FNeg(vega) ELSE vega

\* heston.ts:123
GreeksVega(p, vol, safeT, d1) ==
    FDiv(FMul(FMul(p.S0, FSqrt(safeT)), pdf(d1)), Num(100))

\* heston.ts:128 and 135
GreeksDelta(p, Nd1) ==
    IF p.optionType = "Put" THEN FSub(Nd1, Num(1)) ELSE Nd1

\* the first term of theta, heston.ts:130 and 136
ThetaDecay(p, vol, safeT, d1) ==
    FDiv(FNeg(FMul(FMul(p.S0, vol), pdf(d1))), FMul(Num(2), FSqrt(safeT)))

\* r * K * exp(-r * safeT), heston.ts:130 and 136
DiscountedStrikeRate(p, safeT) ==
    FMul(FMul(p.r, p.K), FExp(FMul(FNeg(p.r), safeT)))

\* heston.ts:130 and 136
GreeksTheta(p, vol, safeT, d1, Nd2, Nminusd2) ==
    IF p.optionType = "Put"
    THEN FDiv(FAdd(ThetaDecay(p, vol, safeT, d1),
                   FMul(DiscountedStrikeRate(p, safeT), Nminusd2)), Num(365))
    ELSE FDiv(FSub(ThetaDecay(p, vol, safeT, d1),
                   FMul(DiscountedStrikeRate(p, safeT), Nd2)), Num(365))

\* heston.ts:132 and 137
GreeksRho(p, safeT, Nd2, Nminusd2) ==
    LET disc == FExp(FMul(FNeg(p.r), safeT))
    IN  IF p.optionType = "Put"
        THEN FDiv(FMul(FMul(FMul(FNeg(p.K), safeT), disc), Nminusd2), Num(100))
        ELSE FDiv(FMul(FMul(FMul(p.K, safeT), disc), Nd2), Num(100))

\* heston.ts:101-146: the body of calculateGreeks
GreeksRecord(p) ==
    LET vol == GreeksVol(p)
        safeT == SafeT(p)
        d1 == D1(p, vol, safeT)
        d2 == D2(d1, vol, safeT)
        Nd1 == cdf(d1)
        Nd2 == cdf(d2)
        Nminusd2 == cdf(FNeg(d2))
    IN  [delta |-> GreeksDelta(p, Nd1),
         gamma |-> GreeksGamma(p, vol, safeT, d1),
         vega  |-> GreeksVega(p, vol, safeT, d1),
         theta |-> GreeksTheta(p, vol, safeT, d1, Nd2, Nminusd2),
         rho   |-> GreeksRho(p, safeT, Nd2, Nminusd2)]

\* calculateGreeks taking the spot from currentPrice
calculateGreeksAtCurrentPrice(p, currentPrice) ==
    GreeksRecord([p EXCEPT !.S0 = currentPrice])

\* heston.ts:100-147; the body never reads currentPrice
calculateGreeks(p, currentPrice) == GreeksRecord(p)

----------------------------------------------------------------------------
(* Parameter records (HestonParams, src/types.ts:2-15).  Numeric fields    *)
(* are given in units of 1/Q; numPaths and timeSteps are integers.         *)

HP(S0, K, r, T, v0, theta, kappa, xi, rho, numPaths, timeSteps, optionType) ==
    [S0 |-> Fin(S0), K |-> Fin(K), r |-> Fin(r), T |-> Fin(T),
     v0 |-> Fin(v0), theta |-> Fin(theta), kappa |-> Fin(kappa),
     xi |-> Fin(xi), rho |-> Fin(rho),
     numPaths |-> numPaths, timeSteps |-> timeSteps,
     optionType |-> optionType]

OptionTypes == {"Call", "Put"}

\* the domain the specification gives a valid parameter record
ValidParams(p) ==
    /\ p.numPaths >= 1
    /\ p.timeSteps >= 1
    /\ FGt(p.T, Num(0))
    /\ FGt(p.S0, Num(0))
    /\ FGt(p.K, Num(0))
    /\ FLe(Num(-1), p.rho) /\ FLe(p.rho, Num(1))

\* the domain of the ModelParameters record: ValidParams and the sign
\* constraints on the variance parameters
DomainParams(p) ==
    /\ ValidParams(p)
    /\ FLe(Num(0), p.v0)
    /\ FLe(Num(0), p.theta)
    /\ FGt(p.kappa, Num(0))
    /\ FLe(Num(0), p.xi)

\* bounds of the explored inputs
MaxPaths == 2
MaxSteps == 2
MaxWork == 2
CapMargin == 1

\* heston.ts:31
pathsToVisualize == 50

\* valid records whose paths depend on the random draws (v0 > 0)
StochasticParams ==
    { HP(20000, c[1], 500, 10000, 400, 400, 20000, c[2], c[3], N, M, c[4]) :
        c \in { <<10000, 3000, -5000, "Call">>, <<30000, 3000, -5000, "Put">>,
                <<30000, 3000, 10000, "Call">>, <<10000, 3000, 10000, "Put">>,
                <<10000, 0, 0, "Call">>, <<30000, 0, 0, "Put">>,
                <<20000, 0, 0, "Call">> },
        N \in 1..MaxPaths, M \in 1..MaxSteps }

\* valid records with a small initial variance and xi = 0: the payoffs of the
\* paths are close to one another
LowVarianceParams ==
    { HP(20000, 10000, 500, 100, 1, 400, 20000, 0, 0, N, M, o) :
        N \in 1..MaxPaths, M \in 1..MaxSteps, o \in OptionTypes }

\* valid records with zero variance (v0 = theta = 0): every path follows the
\* same deterministic drift
ZeroVarianceParams ==
    { HP(S0, 10000, r, 10000, 0, 0, 20000, 3000, -5000, N, M, o) :
        S0 \in {10000, 20000}, r \in {0, 500},
        N \in 1..MaxPaths, M \in 1..MaxSteps, o \in OptionTypes }

\* valid zero-variance records whose path count is around the visualization cap
CapParams ==
    { HP(20000, 10000, 500, 10000, 0, 0, 20000, 3000, -5000, N, M, "Call") :
        N \in (pathsToVisualize - CapMargin)..(pathsToVisualize + CapMargin),
        M \in {MaxSteps} }

\* records outside the valid domain, one offending field each
InvalidParams ==
    { HP(20000, 10000, 500, 10000, 400, 400, 20000, 3000, -5000, N, 1, "Call") :
        N \in {-1, 0} }
    \cup { HP(20000, 10000, 500, 10000, 400, 400, 20000, 3000, -5000, 1, 0, "Call") }
    \cup { HP(20000, 10000, 500, T, 400, 400, 20000, 3000, -5000, 1, 1, "Put") :
        T \in {-10000, 0} }
    \cup { HP(S0, 10000, 500, 10000, 400, 400, 20000, 3000, -5000, 1, 1, "Call") :
        S0 \in {-10000, 0} }
    \cup { HP(20000, K, 500, 10000, 400, 400, 20000, 3000, -5000, 1, 1, "Put") :
        K \in {-10000, 0} }
    \cup { HP(20000, 10000, 500, 10000, 400, 400, 20000, 3000, rho, 1, 1, "Call") :
        rho \in {-15000, 15000} }

ParamSet ==
    { p \in StochasticParams \cup LowVarianceParams :
        p.numPaths * p.timeSteps <= MaxWork }
    \cup ZeroVarianceParams \cup CapParams \cup InvalidParams

\* the values Math.random() returns in the model: 0 and two nonzero values
Uniforms == {Fin(0), Fin(1353), Fin(5000)}

----------------------------------------------------------------------------
(* runHestonSimulation(params), src/utils/heston.ts:17-97                  *)

VARIABLES
    params,             \* the argument
    pc,                 \* position in runHestonSimulation
    dt, sqrtDt,         \* heston.ts:21-22
    sumPayoffs, sumPayoffsSquared,      \* heston.ts:24-25
    finalPrices,        \* heston.ts:26
    visualizationPaths, \* heston.ts:30
    i, t,               \* loop counters, heston.ts:35 and 45
    X, v,               \* log-price and variance of the current path
    isVisual,           \* heston.ts:40
    bm_u, bm_v,         \* the locals u, v of randn_bm
    z1, z2,             \* heston.ts:46-47
    result,             \* the returned SimulationResult
    run,                \* the number of the current invocation of runHestonSimulation
    observed,           \* whether the invocations record their variates
    nUniforms,          \* observed: the number of nonzero Math.random() results so far
    uAt,                \* observed: which of them the local u of randn_bm holds (0: none)
    zs,                 \* observed: the variates randn_bm has returned so far
    nSteps,             \* the step updates (heston.ts:49-67) done by the current invocation
    qm,                 \* two calls of calculateQuantumMetrics: arguments, result
    gk,                 \* two calls of calculateGreeks: arguments, result
    app,                \* the state of the dashboard component App, README.md:261-286
    sims                \* the calls of App.runSimulation, README.md:347-359

\* the dashboard
appVars == <<app, sims>>

\* the record of an invocation's draws
obsVars == <<run, observed, nUniforms, uAt, zs, nSteps>>

simVars == <<params, pc, dt, sqrtDt, sumPayoffs, sumPayoffsSquared, finalPrices,
             visualizationPaths, i, t, X, v, isVisual, bm_u, bm_v, z1, z2,
             result, obsVars>>

NoResult == [status |-> "none"]

\* the entry of runHestonSimulation with an argument from ps
SimStart(ps, obs) ==
    /\ params \in ps
    /\ pc = "begin"
    /\ dt = Fin(0) /\ sqrtDt = Fin(0)
    /\ sumPayoffs = Fin(0) /\ sumPayoffsSquared = Fin(0)
    /\ finalPrices = <<>>
    /\ visualizationPaths = <<>>
    /\ i = 0 /\ t = 0
    /\ X = Fin(0) /\ v = Fin(0)
    /\ isVisual = FALSE
    /\ bm_u = Fin(0) /\ bm_v = Fin(0)
    /\ z1 = Fin(0) /\ z2 = Fin(0)
    /\ result = NoResult
    /\ run = 1 /\ observed = obs
    /\ nUniforms = 0 /\ uAt = 0 /\ zs = <<>> /\ nSteps = 0

SimInit == SimStart(ParamSet, FALSE)

\* Begin with the payoff accumulators kept from one invocation to the next
BeginKeepsAccumulators ==
    /\ pc = "begin"
    /\ dt' = FDiv(params.T, Num(params.timeSteps))
    /\ sqrtDt' = FSqrt(dt')
    /\ finalPrices' = <<>>
    /\ visualizationPaths' = <<>>
    /\ i' = 0
    /\ pc' = "path"
    /\ UNCHANGED <<params, sumPayoffs, sumPayoffsSquared, t, X, v, isVisual,
                   bm_u, bm_v, z1, z2, result, qm, gk, appVars, obsVars>>

\* heston.ts:18-33: the step size and the empty accumulators
Begin ==
    /\ pc = "begin"
    /\ dt' = FDiv(params.T, Num(params.timeSteps))
    /\ sqrtDt' = FSqrt(dt')
    /\ sumPayoffs' = Fin(0)
    /\ sumPayoffsSquared' = Fin(0)
    /\ finalPrices' = <<>>
    /\ visualizationPaths' = <<>>
    /\ i' = 0
    /\ pc' = "path"
    /\ UNCHANGED <<params, t, X, v, isVisual, bm_u, bm_v, z1, z2, result, qm, gk, appVars, obsVars>>

\* heston.ts:42: the sample recorded at time 0
FirstSample(p, path) == [time |-> Fin(0), value |-> p.S0, vol |-> p.v0, pathId |-> path]

\* IsVisualPath with the comparison off by one
IsVisualPathOffByOne(path) == path <= pathsToVisualize

\* heston.ts:40
IsVisualPath(path) == path < pathsToVisualize

\* PathStart with the step loop counted from 0
PathStartFromZero ==
    /\ pc = "path"
    /\ i < params.numPaths
    /\ X' = FLog(params.S0)
    /\ v' = params.v0
    /\ isVisual' = IsVisualPath(i)
    /\ visualizationPaths' =
          IF isVisual' THEN Append(visualizationPaths, FirstSample(params, i))
          ELSE visualizationPaths
    /\ t' = 0
    /\ pc' = "step"
    /\ UNCHANGED <<params, dt, sqrtDt, sumPayoffs, sumPayoffsSquared, finalPrices,
                   i, bm_u, bm_v, z1, z2, result, qm, gk, appVars, obsVars>>

\* heston.ts:35-43: the head of the path loop and the path's initialisation
PathStart ==
    /\ pc = "path"
    /\ i < params.numPaths
    /\ X' = FLog(params.S0)
    /\ v' = params.v0
    /\ isVisual' = IsVisualPath(i)
    /\ visualizationPaths' =
          IF isVisual' THEN Append(visualizationPaths, FirstSample(params, i))
          ELSE visualizationPaths
    /\ t' = 1
    /\ pc' = "step"
    /\ UNCHANGED <<params, dt, sqrtDt, sumPayoffs, sumPayoffsSquared, finalPrices,
                   i, bm_u, bm_v, z1, z2, result, qm, gk, appVars, obsVars>>

\* heston.ts:35: the path loop ends
PathsDone ==
    /\ pc = "path"
    /\ ~(i < params.numPaths)
    /\ pc' = "aggregate"
    /\ UNCHANGED <<params, dt, sqrtDt, sumPayoffs, sumPayoffsSquared, finalPrices,
                   visualizationPaths, i, t, X, v, isVisual, bm_u, bm_v, z1, z2,
                   result, qm, gk, appVars, obsVars>>

\* heston.ts:45: the head of the step loop; a step starts by calling randn_bm
StepStart ==
    /\ pc = "step"
    /\ t <= params.timeSteps
    /\ bm_u' = Fin(0) /\ bm_v' = Fin(0)
    /\ pc' = "z1_u"
    /\ UNCHANGED <<params, dt, sqrtDt, sumPayoffs, sumPayoffsSquared, finalPrices,
                   visualizationPaths, i, t, X, v, isVisual, z1, z2, result, qm, gk, appVars, obsVars>>

\* heston.ts:45: the step loop ends
StepsDone ==
    /\ pc = "step"
    /\ ~(t <= params.timeSteps)
    /\ pc' = "payoff"
    /\ UNCHANGED <<params, dt, sqrtDt, sumPayoffs, sumPayoffsSquared, finalPrices,
                   visualizationPaths, i, t, X, v, isVisual, bm_u, bm_v, z1, z2,
                   result, qm, gk, appVars, obsVars>>

\* heston.ts:11: the Box-Muller transform of the two uniforms
BoxMuller(u, w) ==
    FMul(FSqrt(FMul(Num(-2), FLog(u))), FCos(FMul(FMul(Num(2), PI), w)))

\* heston.ts:9: one pass of `while (u === 0) u = Math.random()`
\* in the call that produces z1 (k = 1) or z2 (k = 2)
RandnDrawU(k) ==
    /\ pc = (IF k = 1 THEN "z1_u" ELSE "z2_u")
    /\ \E x \in Uniforms :
          /\ bm_u' = x
          /\ pc' = IF x = Fin(0) THEN pc
                   ELSE IF k = 1 THEN "z1_v" ELSE "z2_v"
          /\ nUniforms' = IF observed /\ x # Fin(0) THEN nUniforms + 1 ELSE nUniforms
          /\ uAt' = IF observed /\ x # Fin(0) THEN nUniforms + 1 ELSE uAt
    /\ UNCHANGED <<params, dt, sqrtDt, sumPayoffs, sumPayoffsSquared, finalPrices,
                   visualizationPaths, i, t, X, v, isVisual, bm_v, z1, z2, result,
                   qm, gk, appVars, run, observed, zs, nSteps>>

\* observed: the variate a call of randn_bm returns, with the numbers of the
\* two nonzero uniforms it was computed from
Variate(z, uNo, vNo) == [z |-> z, u |-> uNo, v |-> vNo]

\* RandnDrawV returning, in the first call of a step, both variates of the
\* step from the one pair of uniforms
RandnDrawVSharedPair(k) ==
    /\ pc = (IF k = 1 THEN "z1_v" ELSE "z2_v")
    /\ \E x \in Uniforms :
          IF x = Fin(0)
          THEN /\ bm_v' = x
               /\ UNCHANGED <<bm_u, z1, z2, pc, nUniforms, uAt, zs>>
          ELSE /\ bm_u' = Fin(0) /\ bm_v' = Fin(0)
               /\ z1' = BoxMuller(bm_u, x)
               /\ z2' = BoxMuller(x, bm_u)
               /\ pc' = "update"
               /\ nUniforms' = IF observed THEN nUniforms + 1 ELSE nUniforms
               /\ uAt' = 0
               /\ zs' = IF observed
                        THEN zs \o <<Variate(BoxMuller(bm_u, x), uAt, nUniforms + 1),
                                     Variate(BoxMuller(x, bm_u), uAt, nUniforms + 1)>>
                        ELSE zs
    /\ UNCHANGED <<params, dt, sqrtDt, sumPayoffs, sumPayoffsSquared, finalPrices,
                   visualizationPaths, i, t, X, v, isVisual, result, qm, gk, appVars,
                   run, observed, nSteps>>

\* heston.ts:10-11: one pass of `while (v === 0) v = Math.random()`; when the
\* draw is nonzero randn_bm returns and its locals go out of scope
RandnDrawV(k) ==
    /\ pc = (IF k = 1 THEN "z1_v" ELSE "z2_v")
    /\ \E x \in Uniforms :
          IF x = Fin(0)
          THEN /\ bm_v' = x
               /\ UNCHANGED <<bm_u, z1, z2, pc, nUniforms, uAt, zs>>
          ELSE /\ bm_u' = Fin(0) /\ bm_v' = Fin(0)
               /\ z1' = IF k = 1 THEN BoxMuller(bm_u, x) ELSE z1
               /\ z2' = IF k = 2 THEN BoxMuller(bm_u, x) ELSE z2
               /\ pc' = IF k = 1 THEN "z2_u" ELSE "update"
               /\ nUniforms' = IF observed THEN nUniforms + 1 ELSE nUniforms
               /\ uAt' = 0
               /\ zs' = IF observed
                        THEN Append(zs, Variate(BoxMuller(bm_u, x), uAt, nUniforms + 1))
                        ELSE zs
    /\ UNCHANGED <<params, dt, sqrtDt, sumPayoffs, sumPayoffsSquared, finalPrices,
                   visualizationPaths, i, t, X, v, isVisual, result, qm, gk, appVars,
                   run, observed, nSteps>>

\* heston.ts:49-50
W1(a, b) == a
W2(p, a, b) ==
    FAdd(FMul(p.rho, a), FMul(FSqrt(FSub(Num(1), FMul(p.rho, p.rho))), b))

\* VPrev without the truncation at zero
VPrevUntruncated(var) == var

\* heston.ts:53
VPrev(var) == FMax(Num(0), var)

\* NextV with the diffusion term not scaled by xi
NextVUnscaledNoise(p, var, step, sqrtStep, w2) ==
    FAdd(FAdd(var, FMul(FMul(p.kappa, FSub(p.theta, VPrev(var))), step)),
         FMul(FMul(FSqrt(VPrev(var)), sqrtStep), w2))

\* heston.ts:57
NextV(p, var, step, sqrtStep, w2) ==
    FAdd(FAdd(var, FMul(FMul(p.kappa, FSub(p.theta, VPrev(var))), step)),
         FMul(FMul(FMul(p.xi, FSqrt(VPrev(var))), sqrtStep), w2))

\* heston.ts:61
NextX(p, logS, var, step, sqrtStep, w1) ==
    FAdd(FAdd(logS, FMul(FSub(p.r, FMul(Fin(5000), VPrev(var))), step)),
         FMul(FMul(FSqrt(VPrev(var)), sqrtStep), w1))

\* StepSample with the time of the step's start instead of its end
StepSampleStartTime(step, stepSize, logS, var, path) ==
    [time |-> FMul(Num(step - 1), stepSize), value |-> FExp(logS),
     vol |-> FMax(Num(0), var), pathId |-> path]

\* StepSample recording the log-price itself
StepSampleLogPrice(step, stepSize, logS, var, path) ==
    [time |-> FMul(Num(step), stepSize), value |-> logS,
     vol |-> FMax(Num(0), var), pathId |-> path]

\* heston.ts:66: the sample recorded after step number `step`
StepSample(step, stepSize, logS, var, path) ==
    [time |-> FMul(Num(step), stepSize), value |-> FExp(logS),
     vol |-> FMax(Num(0), var), pathId |-> path]

\* StepUpdate with the log-price computed from the variance already updated
StepUpdateSequential ==
    /\ pc = "update"
    /\ v' = NextV(params, v, dt, sqrtDt, W2(params, z1, z2))
    /\ X' = NextX(params, X, v', dt, sqrtDt, W1(z1, z2))
    /\ visualizationPaths' =
          IF isVisual
          THEN Append(visualizationPaths, StepSample(t, dt, X', v', i))
          ELSE visualizationPaths
    /\ t' = t + 1
    /\ nSteps' = nSteps + 1
    /\ z1' = Fin(0) /\ z2' = Fin(0)
    /\ pc' = "step"
    /\ UNCHANGED <<params, dt, sqrtDt, sumPayoffs, sumPayoffsSquared, finalPrices,
                   i, isVisual, bm_u, bm_v, result, qm, gk, appVars,
                   run, observed, nUniforms, uAt, zs>>

\* heston.ts:49-67: one Euler step of variance and log-price, the recorded
\* sample, and the increment of t
StepUpdate ==
    /\ pc = "update"
    /\ v' = NextV(params, v, dt, sqrtDt, W2(params, z1, z2))
    /\ X' = NextX(params, X, v, dt, sqrtDt, W1(z1, z2))
    /\ visualizationPaths' =
          IF isVisual
          THEN Append(visualizationPaths, StepSample(t, dt, X', v', i))
          ELSE visualizationPaths
    /\ t' = t + 1
    /\ nSteps' = nSteps + 1
    /\ z1' = Fin(0) /\ z2' = Fin(0)
    /\ pc' = "step"
    /\ UNCHANGED <<params, dt, sqrtDt, sumPayoffs, sumPayoffsSquared, finalPrices,
                   i, isVisual, bm_u, bm_v, result, qm, gk, appVars,
                   run, observed, nUniforms, uAt, zs>>

\* Payoff without the floor at zero
PayoffUnfloored(p, sFinal) ==
    IF p.optionType = "Put" THEN FSub(p.K, sFinal) ELSE FSub(sFinal, p.K)

\* heston.ts:73-75
Payoff(p, sFinal) ==
    IF p.optionType = "Put"
    THEN FMax(Num(0), FSub(p.K, sFinal))
    ELSE FMax(Num(0), FSub(sFinal, p.K))

\* PathEnd recording the payoff in place of the terminal price
PathEndRecordsPayoff ==
    /\ pc = "payoff"
    /\ LET S_final == FExp(X)
           payoff == Payoff(params, S_final)
       IN  /\ sumPayoffs' = FAdd(sumPayoffs, payoff)
           /\ sumPayoffsSquared' = FAdd(sumPayoffsSquared, FMul(payoff, payoff))
           /\ finalPrices' = Append(finalPrices, payoff)
    /\ i' = i + 1
    /\ pc' = "path"
    /\ UNCHANGED <<params, dt, sqrtDt, visualizationPaths, t, X, v, isVisual,
                   bm_u, bm_v, z1, z2, result, qm, gk, appVars, obsVars>>

\* heston.ts:70-79: the terminal price, the payoff and the accumulators
PathEnd ==
    /\ pc = "payoff"
    /\ LET S_final == FExp(X)
           payoff == Payoff(params, S_final)
       IN  /\ sumPayoffs' = FAdd(sumPayoffs, payoff)
           /\ sumPayoffsSquared' = FAdd(sumPayoffsSquared, FMul(payoff, payoff))
           /\ finalPrices' = Append(finalPrices, S_final)
    /\ i' = i + 1
    /\ pc' = "path"
    /\ UNCHANGED <<params, dt, sqrtDt, visualizationPaths, t, X, v, isVisual,
                   bm_u, bm_v, z1, z2, result, qm, gk, appVars, obsVars>>

\* heston.ts:83
MeanPayoff(p, sum) == FDiv(sum, Num(p.numPaths))

\* Price without the discount factor
PriceUndiscounted(p, sum) == MeanPayoff(p, sum)

\* heston.ts:84
Price(p, sum) == FMul(FExp(FMul(FNeg(p.r), p.T)), MeanPayoff(p, sum))

\* heston.ts:86
Variance(p, sum, sumSq) ==
    FSub(FDiv(sumSq, Num(p.numPaths)),
         FMul(MeanPayoff(p, sum), MeanPayoff(p, sum)))

\* heston.ts:87
StandardError(p, sum, sumSq) ==
    FMul(FDiv(FSqrt(Variance(p, sum, sumSq)), FSqrt(Num(p.numPaths))),
         FExp(FMul(FNeg(p.r), p.T)))

\* heston.ts:82-96: aggregation and the returned record (the wall-clock
\* field executionTime is not modelled)
Aggregate ==
    /\ pc = "aggregate"
    /\ result' = [status |-> "returned",
                  price |-> Price(params, sumPayoffs),
                  standardError |-> StandardError(params, sumPayoffs, sumPayoffsSquared),
                  paths |-> visualizationPaths,
                  finalPrices |-> finalPrices,
                  greeks |-> calculateGreeks(params, Price(params, sumPayoffs))]
    /\ pc' = "done"
    /\ UNCHANGED <<params, dt, sqrtDt, sumPayoffs, sumPayoffsSquared, finalPrices,
                   visualizationPaths, i, t, X, v, isVisual, bm_u, bm_v, z1, z2, qm, gk, appVars, obsVars>>

\* bound on the number of successive invocations
MaxRuns == 2

\* the shapes <<numPaths, timeSteps>> of the observed invocations
RunShapes == {<<1, 1>>, <<2, 1>>, <<1, 2>>}

\* the arguments of the observed invocations
RunParams ==
    { HP(20000, 10000, 500, 10000, 400, 400, 20000, 3000, -5000, s[1], s[2], "Call") :
        s \in RunShapes }

\* heston.ts:17: runHestonSimulation is called again after it has returned.
\* The new activation has its own locals: the variables keep the values the
\* previous activation left until the new one assigns them.
Reinvoke ==
    /\ pc = "done"
    /\ run < MaxRuns
    /\ params' \in RunParams
    /\ pc' = "begin"
    /\ result' = NoResult
    /\ run' = run + 1
    /\ nUniforms' = 0 /\ uAt' = 0 /\ zs' = <<>> /\ nSteps' = 0
    /\ UNCHANGED <<dt, sqrtDt, sumPayoffs, sumPayoffsSquared, finalPrices,
                   visualizationPaths, i, t, X, v, isVisual, bm_u, bm_v, z1, z2,
                   observed, qm, gk, appVars>>

\* the simulator is not running
SimIdle ==
    /\ params = HP(20000, 10000, 500, 10000, 400, 400, 20000, 3000, -5000, 1, 1, "Call")
    /\ pc = "idle"
    /\ dt = Fin(0) /\ sqrtDt = Fin(0)
    /\ sumPayoffs = Fin(0) /\ sumPayoffsSquared = Fin(0)
    /\ finalPrices = <<>>
    /\ visualizationPaths = <<>>
    /\ i = 0 /\ t = 0
    /\ X = Fin(0) /\ v = Fin(0)
    /\ isVisual = FALSE
    /\ bm_u = Fin(0) /\ bm_v = Fin(0)
    /\ z1 = Fin(0) /\ z2 = Fin(0)
    /\ result = NoResult
    /\ run = 1 /\ observed = FALSE
    /\ nUniforms = 0 /\ uAt = 0 /\ zs = <<>> /\ nSteps = 0

----------------------------------------------------------------------------
(* calculateQuantumMetrics(params, classicalError),                        *)
(* src/utils/heston.ts:152-198.                                            *)
(* Its results are integers, or exact functions of the integer numPaths;   *)
(* they are modelled in exact arithmetic: targetError = 1/sqrt(numPaths)   *)
(* is kept as the number it is the inverse square root of, and each        *)
(* ceil(...) is found by search on an integer inequality.  The model takes *)
(* numPaths >= 1 and timeSteps >= 1.                                       *)

\* heston.ts:154: 1 / Math.sqrt(numPaths)
TargetError(p, classicalError) == [oneOverSqrtOf |-> p.numPaths]

\* a < b for two values 1/sqrt(n)
ErrLt(a, b) == a.oneOverSqrtOf > b.oneOverSqrtOf

RECURSIVE LeastPow(_, _, _)
\* the least j >= from with base^j >= n
LeastPow(base, n, from) ==
    IF base ^ from >= n THEN from ELSE LeastPow(base, n, from + 1)

\* ceil(-log2(1 / sqrt(n))) = ceil(log2(n) / 2): the least j with 4^j >= n
CeilNegLog2Err(err) == LeastPow(4, err.oneOverSqrtOf, 0)

\* PrecisionBits with the negation and the floor at 0 dropped:
\* Math.ceil(10 + Math.log2(targetError)) = 10 - floor(log2(n) / 2)
PrecisionBitsSignSlip(p, classicalError) ==
    LET n == TargetError(p, classicalError).oneOverSqrtOf
        e == LeastPow(4, n + 1, 0) - 1
    IN  10 - e

\* PrecisionBits rounded to the nearest integer instead of up:
\* Math.round(10 + log2(n) / 2) = 10 + floor(log2(2 n) / 2)
PrecisionBitsRounded(p, classicalError) ==
    LET n == TargetError(p, classicalError).oneOverSqrtOf
    IN  10 + (LeastPow(4, 2 * n + 1, 0) - 1)

\* heston.ts:155: Math.ceil(10 + Math.max(0, -Math.log2(targetError)))
PrecisionBits(p, classicalError) ==
    LET e == CeilNegLog2Err(TargetError(p, classicalError))
    IN  10 + (IF e > 0 THEN e ELSE 0)

\* pi^2 as the ratio PiSqNum / 10^4
PiSqNum == 98696

RECURSIVE LeastIter(_, _)
\* the least k >= from with k >= (pi / 4) * sqrt(n), i.e. 16 k^2 >= pi^2 n
LeastIter(n, from) ==
    IF 16 * from * from * 10^4 >= PiSqNum * n THEN from
    ELSE LeastIter(n, from + 1)

\* GroverIterations rounded down instead of up
GroverIterationsFloor(p, classicalError) ==
    LeastIter(TargetError(p, classicalError).oneOverSqrtOf, 0) - 1

\* GroverIterations with one closing iteration added
GroverIterationsPlusOne(p, classicalError) ==
    LeastIter(TargetError(p, classicalError).oneOverSqrtOf, 0) + 1

\* heston.ts:158: Math.ceil((Math.PI / 4) * (1 / targetError))
GroverIterations(p, classicalError) ==
    LeastIter(TargetError(p, classicalError).oneOverSqrtOf, 0)

\* heston.ts:159
Speedup(p, classicalError) ==
    FDiv(Num(p.numPaths), Num(GroverIterations(p, classicalError)))

\* CostAdd with one carry gate more: an odd number of gates per step
CostAddWithCarry(b) == 4 * b + 1

\* heston.ts:162-165
CostMult(b) == 20 * b
CostAdd(b) == 4 * b
CostSqrt(b) == 40 * b
CostGaussian(b) == 100 * b

\* heston.ts:168
TGatesPerStep(b) ==
    2 * CostGaussian(b) + 1 * CostSqrt(b) + 4 * CostMult(b) + 3 * CostAdd(b)

\* OracleTDepth counted once per Grover iteration
OracleTDepthPerIteration(p, classicalError) ==
    p.timeSteps * TGatesPerStep(PrecisionBits(p, classicalError))
    * GroverIterations(p, classicalError)

\* heston.ts:169
OracleTDepth(p, classicalError) ==
    p.timeSteps * TGatesPerStep(PrecisionBits(p, classicalError))

\* heston.ts:172
TotalTGates(p, classicalError) ==
    OracleTDepth(p, classicalError) * GroverIterations(p, classicalError)

\* heston.ts:173: totalTGates * 2.5, kept as the number of halves
TotalCNOTsHalves(p, classicalError) == TotalTGates(p, classicalError) * 5

\* Math.ceil(h / 2) for an integer number h of halves
CeilHalves(h) == (h + 1) \div 2

\* LogicalStateQubits with one more qubit for a Put comparator
LogicalStateQubitsPutComparator(p, classicalError) ==
    2 * PrecisionBits(p, classicalError) + (IF p.optionType = "Put" THEN 1 ELSE 0)

\* heston.ts:177-179
LogicalStateQubits(p, classicalError) == 2 * PrecisionBits(p, classicalError)
LogicalAncillaQubits(p, classicalError) == 6 * PrecisionBits(p, classicalError)
QaeQubits(p, classicalError) ==
    LeastPow(2, GroverIterations(p, classicalError), 0) + 2

\* TotalLogicalQubits without the amplitude-estimation register
TotalLogicalQubitsWithoutQae(p, classicalError) ==
    LogicalStateQubits(p, classicalError) + LogicalAncillaQubits(p, classicalError)

\* heston.ts:181
TotalLogicalQubits(p, classicalError) ==
    LogicalStateQubits(p, classicalError) + LogicalAncillaQubits(p, classicalError)
    + QaeQubits(p, classicalError)

\* heston.ts:152-198
calculateQuantumMetrics(p, classicalError) ==
    [estimatedQubits |-> TotalLogicalQubits(p, classicalError),
     circuitDepth |-> OracleTDepth(p, classicalError)
                      * GroverIterations(p, classicalError),
     theoreticalSpeedup |-> Speedup(p, classicalError),
     estimatedQuantumError |-> TargetError(p, classicalError),
     tGateCount |-> TotalTGates(p, classicalError),
     cnotCount |-> CeilHalves(TotalCNOTsHalves(p, classicalError)),
     oracleDepth |-> OracleTDepth(p, classicalError),
     groverIterations |-> GroverIterations(p, classicalError),
     qubitBreakdown |-> [state |-> LogicalStateQubits(p, classicalError),
                         ancilla |-> LogicalAncillaQubits(p, classicalError),
                         qae |-> QaeQubits(p, classicalError)]]

\* bounds of the explored inputs of calculateQuantumMetrics
MaxQPaths == 9
MaxQSteps == 2

\* two settings of the fields other than numPaths and timeSteps
QOtherFields ==
    { HP(20000, 10000, 500, 10000, 400, 400, 20000, 3000, -5000, 1, 1, "Call"),
      HP(10000, 30000, 0, 20000, 0, 100, 10000, 0, 10000, 1, 1, "Put") }

QParamSet ==
    { [o EXCEPT !.numPaths = N, !.timeSteps = M] :
        o \in QOtherFields,
        N \in (1..MaxQPaths) \cup {1000},
        M \in 1..MaxQSteps }

ClassicalErrors == {Fin(0), Fin(125)}

Calls == {1, 2}

NoOutput == [status |-> "none"]

QmInit ==
    qm \in [Calls -> { [params |-> p, classicalError |-> e, out |-> NoOutput] :
                        p \in QParamSet, e \in ClassicalErrors }]

QmIdle ==
    qm = [c \in Calls |->
            [params |-> HP(20000, 10000, 500, 10000, 400, 400, 20000, 3000, -5000, 1, 1, "Call"),
             classicalError |-> Fin(0), out |-> NoOutput]]

\* one call of calculateQuantumMetrics runs to its return
QmCall(c) ==
    /\ qm[c].out = NoOutput
    /\ qm' = [qm EXCEPT ![c].out =
                [status |-> "returned",
                 metrics |-> calculateQuantumMetrics(qm[c].params, qm[c].classicalError)]]
    /\ UNCHANGED <<simVars, gk, appVars>>

----------------------------------------------------------------------------
(* Two calls of calculateGreeks.                                           *)

\* inputs of calculateGreeks: maturities at, below and above the floor,
\* zero and positive long-run variance
GreeksParamSet ==
    { HP(S0, 10000, r, T, 400, theta, 20000, 3000, -5000, 1, 1, o) :
        S0 \in {10000, 20000}, r \in {0, 500},
        T \in {-10000, 0, 1, 2, 10000}, theta \in {0, 400},
        o \in OptionTypes }

CurrentPrices == {Fin(0), Fin(10450), NaN}

\* the same record with the other option kind
OtherKind(p) ==
    [p EXCEPT !.optionType = IF p.optionType = "Put" THEN "Call" ELSE "Put"]

\* the second call takes the record of the first, or that record with the
\* other option kind
GkInit ==
    \E p \in GreeksParamSet, c1 \in CurrentPrices, c2 \in CurrentPrices :
        \E p2 \in {p, OtherKind(p)} :
            gk = [c \in Calls |->
                    [params |-> IF c = 1 THEN p ELSE p2,
                     currentPrice |-> IF c = 1 THEN c1 ELSE c2,
                     out |-> NoOutput]]

GkIdle ==
    gk = [c \in Calls |->
            [params |-> HP(20000, 10000, 500, 10000, 400, 400, 20000, 3000, -5000, 1, 1, "Call"),
             currentPrice |-> Fin(0), out |-> NoOutput]]

\* one call of calculateGreeks runs to its return
GkCall(c) ==
    /\ gk[c].out = NoOutput
    /\ gk' = [gk EXCEPT ![c].out =
                [status |-> "returned",
                 greeks |-> calculateGreeks(gk[c].params, gk[c].currentPrice)]]
    /\ UNCHANGED <<simVars, qm, appVars>>

----------------------------------------------------------------------------
(* The dashboard component App (src/README.md:158-).  Handlers run to      *)
(* completion between awaits; the state updates of one continuation are    *)
(* committed together, and the effects that depend on the updated state    *)
(* run with that commit.                                                   *)

Null == [null |-> TRUE]

\* bound on the number of calls of App.runSimulation
MaxStarts == 3

\* bound on the number of runs of the live feed's interval callback
MaxTicks == 11

\* README.md:389, the length the history is seeded with
SeedLength == 20

\* README.md:403, the length the history is cut to
HistoryLimit == 30

\* the entry of US_STOCKS (README.md:184-238) that App selects at first
Stocks == { [value |-> "SPX", price |-> Num(5850)] }

\* values typed into the Spot Price input
Spots == {Num(5850), Num(5900)}

StockOf(value) == CHOOSE st \in Stocks : st.value = value

\* README.md:385
IsMarketActive(status) == status \in {"OPEN", "PRE-MARKET", "AFTER-HOURS"}

\* what GET /market-data/<ticker> can make getMarketData return
\* (api.ts:38-49): null, or a quote with a price and a market status
MarketData(stock) ==
    {Null, [null |-> FALSE, price |-> Num(0), status |-> "OPEN"]}
    \cup { [null |-> FALSE, price |-> FAdd(stock.price, Num(1)), status |-> st] :
            st \in {"OPEN", "CLOSED"} }

\* the results of Math.random() in the live feed
FeedUniforms == {Fin(0), Fin(5000)}

\* a call of runSimulation that has not been made
NotCalled == [pc |-> "idle", currentParams |-> Null, res |-> Null,
              failed |-> "none", ret |-> Null]

\* README.md:261-286: the state of App after construction
AppInit ==
    /\ app = [params |-> [S0 |-> Num(5850)],
              anchorPrice |-> Num(5850),
              isLive |-> FALSE,
              marketStatus |-> "CLOSED",
              marketHistory |-> <<>>,
              result |-> Null,
              quantumMetrics |-> Null,
              pending |-> {},
              ticks |-> 0]
    /\ sims = [c \in 1..MaxStarts |-> NotCalled]

\* README.md:383-410: the live feed's effect, run when one of its
\* dependencies has changed: with the feed on an empty history is seeded
\* with SeedLength entries at the anchor price (an entry is modelled by its
\* price), and the interval is set anew for the state just committed
LiveFeedEffect(a) ==
    IF a.isLive /\ Len(a.marketHistory) = 0
    THEN [a EXCEPT !.marketHistory = [k \in 1..SeedLength |-> a.anchorPrice]]
    ELSE a

\* README.md:570, the Live Market Feed switch
SetIsLive ==
    /\ app' = LiveFeedEffect([app EXCEPT !.isLive = ~app.isLive])
    /\ UNCHANGED <<simVars, qm, gk, sims>>

\* README.md:628-635, the Spot Price input
SetSpot ==
    /\ ~app.isLive /\ app.pending = {}
    /\ \E x \in Spots :
          app' = LiveFeedEffect([app EXCEPT !.params.S0 = x,
                                            !.anchorPrice = x])
    /\ UNCHANGED <<simVars, qm, gk, sims>>

\* README.md:394-399
NewSpot(S0, anchorPrice, u) ==
    LET meanReversion == Fin(8000)
        currentDeviation == FSub(S0, anchorPrice)
        pullBack == FMul(FNeg(currentDeviation), meanReversion)
        \* anchorPrice * 0.00005 = anchorPrice / 200 / 100
        scale == FDiv(FDiv(anchorPrice, Num(200)), Num(100))
        randomShock == FMul(FMul(FSub(u, Fin(5000)), Num(2)), scale)
    IN  FAdd(FAdd(S0, pullBack), randomShock)

\* README.md:403
LastEntries(h, n) == IF Len(h) <= n THEN h ELSE SubSeq(h, Len(h) - n + 1, Len(h))

\* LiveFeedTick appending without cutting the history
LiveFeedTickUncut ==
    /\ app.isLive
    /\ app.ticks < MaxTicks
    /\ IF ~IsMarketActive(app.marketStatus)
       THEN app' = [app EXCEPT !.ticks = @ + 1]
       ELSE \E u \in FeedUniforms :
              LET newSpot == NewSpot(app.params.S0, app.anchorPrice, u)
              IN  app' = LiveFeedEffect(
                            [app EXCEPT !.ticks = @ + 1,
                                        !.params.S0 = newSpot,
                                        !.marketHistory = Append(@, newSpot)])
    /\ UNCHANGED <<simVars, qm, gk, sims>>

\* README.md:391-406: one run of the interval callback, which exists while
\* the feed is on
LiveFeedTick ==
    /\ app.isLive
    /\ app.ticks < MaxTicks
    /\ IF ~IsMarketActive(app.marketStatus)
       THEN app' = [app EXCEPT !.ticks = @ + 1]
       ELSE \E u \in FeedUniforms :
              LET newSpot == NewSpot(app.params.S0, app.anchorPrice, u)
              IN  app' = LiveFeedEffect(
                            [app EXCEPT !.ticks = @ + 1,
                                        !.params.S0 = newSpot,
                                        !.marketHistory =
                                            LastEntries(Append(@, newSpot), HistoryLimit)])
    /\ UNCHANGED <<simVars, qm, gk, sims>>

\* README.md:291-310: handleStockChange up to its await
HandleStockChangeStart ==
    /\ \E stock \in Stocks :
          /\ stock.value \notin app.pending
          /\ app' = LiveFeedEffect([app EXCEPT !.params.S0 = stock.price,
                                               !.anchorPrice = stock.price,
                                               !.pending = @ \cup {stock.value}])
    /\ UNCHANGED <<simVars, qm, gk, sims>>

\* README.md:310-343: handleStockChange from the return of getMarketData on
HandleStockChangeResponse ==
    /\ \E value \in app.pending :
          \E realData \in MarketData(StockOf(value)) :
              LET stock == StockOf(value)
                  quoted == ~realData.null /\ FGt(realData.price, Num(0))
                  newPrice == IF quoted THEN realData.price ELSE stock.price
              IN  app' = LiveFeedEffect(
                            [app EXCEPT !.anchorPrice = IF quoted THEN newPrice ELSE @,
                                        !.marketStatus = IF quoted THEN realData.status ELSE @,
                                        !.params.S0 = newPrice,
                                        !.marketHistory = <<>>,
                                        !.pending = @ \ {value}])
    /\ UNCHANGED <<simVars, qm, gk, sims>>

\* what a backend request of call c answers with when it succeeds
Response(c, what) ==
    [null |-> FALSE, what |-> what, call |-> c, params |-> sims[c].currentParams]

\* README.md:347-349: runSimulation(currentParams) is called (from
\* handleRunSimulation, line 366, or from the effect of lines 412-416) and
\* sends POST /simulate
RunSimulationCall(c) ==
    /\ sims[c].pc = "idle"
    /\ c > 1 => sims[c - 1].pc # "idle"
    /\ sims' = [sims EXCEPT ![c].pc = "simulate", ![c].currentParams = app.params]
    /\ UNCHANGED <<simVars, qm, gk, app>>

\* RunSimulationSimulate setting the result as soon as it has arrived
RunSimulationSimulateSetsResult(c) ==
    /\ sims[c].pc = "simulate"
    /\ \E ok \in BOOLEAN :
          IF ok
          THEN /\ sims' = [sims EXCEPT ![c].pc = "metrics",
                                       ![c].res = Response(c, "SimulationResult")]
               /\ app' = [app EXCEPT !.result = Response(c, "SimulationResult")]
          ELSE /\ sims' = [sims EXCEPT ![c].pc = "returned", ![c].failed = "simulate",
                                       ![c].ret = Null]
               /\ UNCHANGED app
    /\ UNCHANGED <<simVars, qm, gk>>

\* api.ts:6-20 and README.md:349-350: the /simulate request settles; on
\* success POST /quantum-metrics is sent, on failure (a rejected fetch or a
\* response that is not ok) the catch block returns null
RunSimulationSimulate(c) ==
    /\ sims[c].pc = "simulate"
    /\ \E ok \in BOOLEAN :
          IF ok
          THEN sims' = [sims EXCEPT ![c].pc = "metrics",
                                    ![c].res = Response(c, "SimulationResult")]
          ELSE sims' = [sims EXCEPT ![c].pc = "returned", ![c].failed = "simulate",
                                    ![c].ret = Null]
    /\ UNCHANGED <<simVars, qm, gk, app>>

\* api.ts:22-36 and README.md:350-358: the /quantum-metrics request
\* settles; on success both state variables are set and res is returned
RunSimulationMetrics(c) ==
    /\ sims[c].pc = "metrics"
    /\ \E ok \in BOOLEAN :
          IF ok
          THEN /\ app' = [app EXCEPT !.result = sims[c].res,
                                     !.quantumMetrics = Response(c, "QuantumMetrics")]
               /\ sims' = [sims EXCEPT ![c].pc = "returned", ![c].ret = sims[c].res]
          ELSE /\ sims' = [sims EXCEPT ![c].pc = "returned", ![c].failed = "metrics",
                                       ![c].ret = Null]
               /\ UNCHANGED app
    /\ UNCHANGED <<simVars, qm, gk>>

----------------------------------------------------------------------------
(* Specifications                                                          *)

vars == <<simVars, qm, gk, appVars>>

\* one run of runHestonSimulation
Init == SimInit /\ QmIdle /\ GkIdle /\ AppInit

Next ==
    \/ Begin
    \/ PathStart
    \/ PathsDone
    \/ StepStart
    \/ StepsDone
    \/ RandnDrawU(1)
    \/ RandnDrawV(1)
    \/ RandnDrawU(2)
    \/ RandnDrawV(2)
    \/ StepUpdate
    \/ PathEnd
    \/ Aggregate

Spec == Init /\ [][Next]_vars

\* the positions of runHestonSimulation outside randn_bm at which a
\* statement is still to be executed
ControlLocs == {"begin", "path", "step", "update", "payoff", "aggregate"}

\* the positions inside the two rejection loops of randn_bm, heston.ts:9-10
SamplerLocs == {"z1_u", "z1_v", "z2_u", "z2_v"}

\* the run moves on from a position in S
Advance(S) == pc \in S /\ pc' \in (ControlLocs \cup SamplerLocs \cup {"done"}) \ {pc}

TerminationInit == SimStart(RunParams, FALSE) /\ QmIdle /\ GkIdle /\ AppInit

\* one run of runHestonSimulation that keeps executing.  The function is
\* synchronous, so outside randn_bm its next statement is taken whenever
\* there is one; inside a rejection loop a pass that draws 0 leaves the
\* position as it was, so fairness there says that Math.random() does not
\* return 0 for ever.
SpecTermination ==
    /\ TerminationInit /\ [][Next]_vars
    /\ WF_pc(Advance(ControlLocs))
    /\ WF_pc(Advance(SamplerLocs))

\* successive observed invocations of runHestonSimulation, with a call of
\* calculateQuantumMetrics and a call of calculateGreeks at any point between
\* their steps
RunsInit == SimStart(RunParams, TRUE) /\ QmIdle /\ GkIdle /\ AppInit

RunsNext ==
    \/ Begin
    \/ PathStart
    \/ PathsDone
    \/ StepStart
    \/ StepsDone
    \/ RandnDrawU(1)
    \/ RandnDrawV(1)
    \/ RandnDrawU(2)
    \/ RandnDrawV(2)
    \/ StepUpdate
    \/ PathEnd
    \/ Aggregate
    \/ Reinvoke
    \/ QmCall(1)
    \/ GkCall(1)

SpecRuns == RunsInit /\ [][RunsNext]_vars

\* two calls of calculateQuantumMetrics
QmSpecInit == SimIdle /\ QmInit /\ GkIdle /\ AppInit

QmSpecNext == QmCall(1) \/ QmCall(2)

SpecQuantum == QmSpecInit /\ [][QmSpecNext]_vars

\* two calls of calculateGreeks
GkSpecInit == SimIdle /\ QmIdle /\ GkInit /\ AppInit

GkSpecNext == GkCall(1) \/ GkCall(2)

SpecGreeks == GkSpecInit /\ [][GkSpecNext]_vars

\* the dashboard's calls of runSimulation, overlapping in any way, with the
\* parameters edited between them
DashboardInit == SimIdle /\ QmIdle /\ GkIdle /\ AppInit

DashboardNext ==
    \/ SetSpot
    \/ \E c \in 1..MaxStarts : RunSimulationCall(c)
    \/ \E c \in 1..MaxStarts : RunSimulationSimulate(c)
    \/ \E c \in 1..MaxStarts : RunSimulationMetrics(c)

SpecDashboard == DashboardInit /\ [][DashboardNext]_vars

\* the dashboard's live feed: feed toggles, ticks and ticker changes
FeedNext ==
    \/ SetIsLive
    \/ LiveFeedTick
    \/ HandleStockChangeStart
    \/ HandleStockChangeResponse

SpecFeed == DashboardInit /\ [][FeedNext]_vars


----------------------------------------------------------------------------
(* Properties                                                              *)

Min(a, b) == IF a < b THEN a ELSE b

SimDone == pc = "done" /\ result.status = "returned"

\* C1: with a parameter record outside the valid domain (numPaths < 1,
\* timeSteps < 1, T <= 0, S0 <= 0, K <= 0 or rho outside [-1,1])
\* runHestonSimulation fails before any path is simulated or any random
\* number is drawn, and returns no SimulationOutcome.
C1_InvalidParamsRejected ==
    ~ValidParams(params) =>
        /\ result.status # "returned"
        /\ finalPrices = <<>>
        /\ visualizationPaths = <<>>
        /\ pc \notin {"z1_u", "z1_v", "z2_u", "z2_v", "update", "payoff"}

\* C2: for a valid parameter record one terminal price is appended per path
\* (after path i the array holds i + 1 entries), the returned finalPrices
\* holds exactly numPaths entries, and every entry is strictly positive.
C2_FinalPrices ==
    DomainParams(params) =>
        /\ Len(finalPrices) = i
        /\ \A j \in 1..Len(finalPrices) : FGt(finalPrices[j], Num(0))
        /\ SimDone => /\ result.finalPrices = finalPrices
                      /\ Len(result.finalPrices) = params.numPaths

C2_Witness ==
    /\ SimDone /\ DomainParams(params)
    /\ params.numPaths = 2
    /\ Len(result.finalPrices) = 2
    /\ result.finalPrices[1] # result.finalPrices[2]

\* C3: no sample is ever stored for a path index >= 50, and the returned
\* paths array holds exactly timeSteps + 1 samples for each of the path
\* indices 0 .. min(numPaths, 50) - 1 and nothing else, so its length is
\* min(numPaths, 50) * (timeSteps + 1).
C3_VisualizedPathsCapped ==
    DomainParams(params) =>
        /\ \A k \in 1..Len(visualizationPaths) :
              visualizationPaths[k].pathId < 50
        /\ SimDone =>
              LET n == Min(params.numPaths, 50)
              IN  /\ Len(result.paths) = n * (params.timeSteps + 1)
                  /\ \A id \in 0..(n - 1) :
                        Cardinality({k \in 1..Len(result.paths) :
                                       result.paths[k].pathId = id})
                          = params.timeSteps + 1

C3_Witness ==
    /\ SimDone /\ DomainParams(params)
    /\ params.numPaths > 50
    /\ Len(result.paths) = 50 * (params.timeSteps + 1)
    /\ Len(result.finalPrices) = params.numPaths

\* C4: the samples of a visualized path are stored in order, timeSteps + 1
\* per path; the first has time 0 and value S0, the t-th later one has time
\* t * dt with dt = T / timeSteps, and the times of one path are strictly
\* increasing (so the last one is timeSteps * dt).
C4_SampleTimes ==
    DomainParams(params) =>
        LET n == params.timeSteps + 1
            stepSize == FDiv(params.T, Num(params.timeSteps))
        IN  \A k \in 1..Len(visualizationPaths) :
            LET s == visualizationPaths[k]
                step == (k - 1) % n
            IN  /\ s.pathId = (k - 1) \div n
                /\ step = 0 => s.time = Num(0) /\ s.value = params.S0
                /\ step > 0 =>
                      /\ s.time = FMul(Num(step), stepSize)
                      /\ visualizationPaths[k - 1].pathId = s.pathId
                      /\ FLt(visualizationPaths[k - 1].time, s.time)

C4_Witness ==
    /\ SimDone /\ DomainParams(params)
    /\ params.timeSteps = 2 /\ params.numPaths = 2
    /\ Len(visualizationPaths) = 6
    /\ visualizationPaths[6].time = params.T
    /\ visualizationPaths[6].pathId = 1

\* C5: for a valid parameter record the returned standardError is a
\* non-negative number, never negative and never NaN.
C5_StandardErrorNonNegative ==
    (SimDone /\ DomainParams(params)) => FLe(Num(0), result.standardError)

GkReturned(c) == gk[c].out.status = "returned"

\* C6: for the same valid parameters apart from the option kind, the delta
\* of the Call minus the delta of the Put equals 1.
C6_DeltaCallMinusPutIsOne ==
    (/\ GkReturned(1) /\ GkReturned(2)
     /\ gk[1].params.optionType = "Call"
     /\ gk[2].params = OtherKind(gk[1].params)
     /\ DomainParams(gk[1].params))
    => FSub(gk[1].out.greeks.delta, gk[2].out.greeks.delta) = Num(1)

QmReturned(c) == qm[c].out.status = "returned"

\* 333/106 < pi < 355/113, so k = ceil((pi / 4) * sqrt(n)) satisfies
\* 16 k^2 106^2 >= 333^2 n  and  16 (k - 1)^2 113^2 < 355^2 n
IsCeilPiOver4Sqrt(k, n) ==
    /\ 16 * k * k * 106 * 106 >= 333 * 333 * n
    /\ 16 * (k - 1) * (k - 1) * 113 * 113 < 355 * 355 * n

\* C7: groverIterations is k = ceil((pi / 4) * sqrt(numPaths)) and
\* theoreticalSpeedup is numPaths / k; numPaths = 1000 gives k = 25 and a
\* speedup of 40.
C7_GroverIterationsAndSpeedup ==
    \A c \in Calls :
        QmReturned(c) =>
            LET m == qm[c].out.metrics
                n == qm[c].params.numPaths
            IN  /\ m.estimatedQuantumError = [oneOverSqrtOf |-> n]
                /\ IsCeilPiOver4Sqrt(m.groverIterations, n)
                /\ m.theoreticalSpeedup = FDiv(Num(n), Num(m.groverIterations))
                /\ n = 1000 => /\ m.groverIterations = 25
                               /\ m.theoreticalSpeedup = Num(40)

C7_Witness ==
    /\ QmReturned(1)
    /\ qm[1].params.numPaths = 1000
    /\ qm[1].out.metrics.groverIterations = 25

\* the two calls have returned, with the same timeSteps and a smaller
\* numPaths in call 1
QmSmallerThenLarger ==
    /\ QmReturned(1) /\ QmReturned(2)
    /\ qm[1].params.timeSteps = qm[2].params.timeSteps
    /\ qm[1].params.numPaths < qm[2].params.numPaths

\* C8 as stated: for N1 < N2 and the same timeSteps the larger path count
\* gives a strictly smaller target error and strictly larger
\* groverIterations, estimatedQubits, tGateCount and cnotCount.
C8_StrictlyMonotone ==
    QmSmallerThenLarger =>
        LET a == qm[1].out.metrics
            b == qm[2].out.metrics
        IN  /\ ErrLt(b.estimatedQuantumError, a.estimatedQuantumError)
            /\ b.groverIterations > a.groverIterations
            /\ b.estimatedQubits > a.estimatedQubits
            /\ b.tGateCount > a.tGateCount
            /\ b.cnotCount > a.cnotCount

\* C8 amended: for N1 < N2 and the same timeSteps the larger path count
\* gives a strictly smaller target error, and groverIterations,
\* estimatedQubits, tGateCount and cnotCount that are never smaller.
C8_Monotone ==
    QmSmallerThenLarger =>
        LET a == qm[1].out.metrics
            b == qm[2].out.metrics
        IN  /\ ErrLt(b.estimatedQuantumError, a.estimatedQuantumError)
            /\ b.groverIterations >= a.groverIterations
            /\ b.estimatedQubits >= a.estimatedQubits
            /\ b.tGateCount >= a.tGateCount
            /\ b.cnotCount >= a.cnotCount

C8_Witness ==
    /\ QmSmallerThenLarger
    /\ qm[1].params.numPaths = 3 /\ qm[2].params.numPaths = 4
    /\ qm[1].out.metrics.groverIterations = qm[2].out.metrics.groverIterations
    /\ qm[1].out.metrics.tGateCount = qm[2].out.metrics.tGateCount

\* C9: two calls of calculateQuantumMetrics whose parameter records agree
\* on numPaths and timeSteps return identical metrics, whatever the other
\* fields of the records and whatever the classicalError arguments.
C9_MetricsDependOnPathsAndStepsOnly ==
    (/\ QmReturned(1) /\ QmReturned(2)
     /\ qm[1].params.numPaths = qm[2].params.numPaths
     /\ qm[1].params.timeSteps = qm[2].params.timeSteps)
    => qm[1].out.metrics = qm[2].out.metrics

C9_Witness ==
    /\ QmReturned(1) /\ QmReturned(2)
    /\ qm[1].params.numPaths = qm[2].params.numPaths
    /\ qm[1].params.timeSteps = qm[2].params.timeSteps
    /\ qm[1].params.optionType # qm[2].params.optionType
    /\ qm[1].params.S0 # qm[2].params.S0
    /\ qm[1].classicalError # qm[2].classicalError

\* C10: the greeks of a SimulationOutcome are what calculateGreeks returns
\* for the parameter record with any currentPrice whatever: they depend
\* neither on the currentPrice argument nor on the random paths of the run.
C10_GreeksDependOnParamsOnly ==
    SimDone =>
        \A c \in {Fin(0), NaN} :
            result.greeks = calculateGreeks(params, c)

C10_Witness ==
    /\ SimDone /\ DomainParams(params)
    /\ params.numPaths = 2
    /\ result.finalPrices[1] # result.finalPrices[2]
    /\ FGt(result.price, Num(0))
    /\ IsFin(result.greeks.delta) /\ IsFin(result.greeks.gamma)

----------------------------------------------------------------------------
(* An invocation replayed alone on the variates it consumed                *)

RECURSIVE ReplaySteps(_, _, _, _, _, _, _)
\* the steps step..timeSteps of path number `path`, on the variates zv
ReplaySteps(p, zv, path, step, logS, var, samples) ==
    IF step > p.timeSteps
    THEN [X |-> logS, samples |-> samples]
    ELSE LET k == 2 * (path * p.timeSteps + step - 1)
             stepSize == FDiv(p.T, Num(p.timeSteps))
             var2 == NextV(p, var, stepSize, FSqrt(stepSize),
                           W2(p, zv[k + 1].z, zv[k + 2].z))
             logS2 == NextX(p, logS, var, stepSize, FSqrt(stepSize),
                            W1(zv[k + 1].z, zv[k + 2].z))
         IN  ReplaySteps(p, zv, path, step + 1, logS2, var2,
                         IF IsVisualPath(path)
                         THEN Append(samples,
                                     StepSample(step, stepSize, logS2, var2, path))
                         ELSE samples)

RECURSIVE ReplayPaths(_, _, _, _)
\* the paths path..numPaths-1, on the variates zv
ReplayPaths(p, zv, path, acc) ==
    IF path >= p.numPaths THEN acc
    ELSE LET end == ReplaySteps(p, zv, path, 1, FLog(p.S0), p.v0,
                                IF IsVisualPath(path)
                                THEN Append(acc.samples, FirstSample(p, path))
                                ELSE acc.samples)
             payoff == Payoff(p, FExp(end.X))
         IN  ReplayPaths(p, zv, path + 1,
                         [sum |-> FAdd(acc.sum, payoff),
                          sumSq |-> FAdd(acc.sumSq, FMul(payoff, payoff)),
                          prices |-> Append(acc.prices, FExp(end.X)),
                          samples |-> end.samples])

\* what runHestonSimulation(p) returns when it runs on its own, from fresh
\* locals, and randn_bm returns the variates zv
RunAlone(p, zv) ==
    LET acc == ReplayPaths(p, zv, 0, [sum |-> Fin(0), sumSq |-> Fin(0),
                                      prices |-> <<>>, samples |-> <<>>])
    IN  [status |-> "returned",
         price |-> Price(p, acc.sum),
         standardError |-> StandardError(p, acc.sum, acc.sumSq),
         paths |-> acc.samples,
         finalPrices |-> acc.prices,
         greeks |-> calculateGreeks(p, Price(p, acc.sum))]

\* every returned result is the one its call gives alone on its own arguments
ResultsAsAlone ==
    /\ SimDone => result = RunAlone(params, zs)
    /\ \A c \in Calls :
          /\ QmReturned(c) =>
                qm[c].out.metrics
                  = calculateQuantumMetrics(qm[c].params, qm[c].classicalError)
          /\ GkReturned(c) =>
                gk[c].out.greeks = calculateGreeks(gk[c].params, gk[c].currentPrice)

\* no step changes the argument record of a call in progress or returned
ArgumentsKept ==
    /\ pc \notin {"done", "idle"} => params' = params
    /\ \A c \in Calls :
          /\ qm'[c].params = qm[c].params
          /\ qm'[c].classicalError = qm[c].classicalError
          /\ gk'[c].params = gk[c].params
          /\ gk'[c].currentPrice = gk[c].currentPrice

\* C11: the three functions leave their parameter record unchanged and keep
\* no state from one invocation to the next: however the invocations are
\* ordered and interleaved, a later invocation of runHestonSimulation returns
\* what it returns alone on its own variates, and calculateQuantumMetrics and
\* calculateGreeks return what they return alone on their own arguments.
C11_CallsIndependent == []ResultsAsAlone /\ [][ArgumentsKept]_vars

C11_Witness ==
    /\ SimDone /\ run = 2
    /\ params.numPaths = 2
    /\ result.finalPrices[1] # result.finalPrices[2]
    /\ FGt(result.price, Num(0))
    /\ QmReturned(1) /\ GkReturned(1)
    /\ Len(visualizationPaths) = 4


AllFinite(g) ==
    /\ IsFin(g.delta) /\ IsFin(g.gamma) /\ IsFin(g.vega)
    /\ IsFin(g.theta) /\ IsFin(g.rho)

\* C12: for a valid parameter record, also with zero long-run variance
\* (theta = 0) or with near-zero maturity, the divisor vol * sqrt(T) that
\* calculateGreeks uses for d1 and gamma is nonzero and the five returned
\* sensitivities are finite.
C12_GreeksFiniteOnValidInput ==
    \A c \in Calls :
        (GkReturned(c) /\ DomainParams(gk[c].params)) =>
            /\ D1Divisor(GreeksVol(gk[c].params), SafeT(gk[c].params)) # Fin(0)
            /\ AllFinite(gk[c].out.greeks)


\* b = 10 + max(0, ceil(log2(n) / 2)): 4^(b - 10) is the least power of 4
\* that is >= n
IsPrecisionBits(b, n) ==
    /\ b >= 10
    /\ 4 ^ (b - 10) >= n
    /\ b > 10 => 4 ^ (b - 11) < n

\* q = ceil(log2(k)) + 2: 2^(q - 2) is the least power of 2 that is >= k
IsQaeQubits(q, k) ==
    /\ q >= 2
    /\ 2 ^ (q - 2) >= k
    /\ q > 2 => 2 ^ (q - 3) < k

\* C13: the returned partitions are state = 2b, ancilla = 6b and
\* qae = ceil(log2(k)) + 2, with b the precision bits and k the
\* groverIterations, and estimatedQubits is the sum of the three.
C13_QubitPartitions ==
    \A c \in Calls :
        QmReturned(c) =>
            LET m == qm[c].out.metrics
                q == m.qubitBreakdown
            IN  /\ q.state % 2 = 0
                /\ IsPrecisionBits(q.state \div 2, qm[c].params.numPaths)
                /\ q.ancilla = 3 * q.state
                /\ IsQaeQubits(q.qae, m.groverIterations)
                /\ m.estimatedQubits = q.state + q.ancilla + q.qae

C13_Witness ==
    /\ QmReturned(1)
    /\ qm[1].params.numPaths = 9
    /\ qm[1].out.metrics.qubitBreakdown = [state |-> 24, ancilla |-> 72, qae |-> 4]
    /\ qm[1].out.metrics.estimatedQubits = 100


\* C14: tGateCount = oracleDepth * groverIterations, circuitDepth is the
\* same product, and cnotCount is exactly 2.5 * tGateCount: the rounding up
\* changes none of the three.
C14_GateCounts ==
    \A c \in Calls :
        QmReturned(c) =>
            LET m == qm[c].out.metrics
            IN  /\ m.tGateCount = m.oracleDepth * m.groverIterations
                /\ m.circuitDepth = m.oracleDepth * m.groverIterations
                /\ m.circuitDepth = m.tGateCount
                /\ 2 * m.cnotCount = 5 * m.tGateCount

C14_Witness ==
    /\ QmReturned(1)
    /\ qm[1].params.numPaths = 1000 /\ qm[1].params.timeSteps = 1
    /\ qm[1].out.metrics.groverIterations = 25
    /\ qm[1].out.metrics.oracleDepth = 4980
    /\ qm[1].out.metrics.tGateCount = 124500
    /\ qm[1].out.metrics.cnotCount = 311250


\* max(0, S - K) for a Call, max(0, K - S) for a Put
IntrinsicValue(kind, S, K) ==
    LET d == IF kind = "Call" THEN FSub(S, K) ELSE FSub(K, S)
    IN  IF FLt(Num(0), d) THEN d ELSE Num(0)

\* the accumulated payoffs and the returned price are non-negative
PayoffsNonNegative ==
    DomainParams(params) =>
        /\ FLe(Num(0), sumPayoffs)
        /\ FLe(Num(0), sumPayoffsSquared)
        /\ SimDone => FLe(Num(0), result.price)

\* the step that ends a path adds the intrinsic value of its terminal price
PayoffAccumulated ==
    (pc = "payoff" /\ pc' = "path" /\ DomainParams(params)) =>
        LET S == FExp(X)
            payoff == IntrinsicValue(params.optionType, S, params.K)
        IN  /\ FLe(Num(0), payoff)
            /\ finalPrices' = Append(finalPrices, S)
            /\ sumPayoffs' = FAdd(sumPayoffs, payoff)

\* C15: the payoff accumulated for a path is max(0, S - K) for a Call and
\* max(0, K - S) for a Put, S being the path's terminal price; every
\* accumulated payoff, the sum of payoffs and the discounted price are
\* non-negative.
C15_PayoffByKind == []PayoffsNonNegative /\ [][PayoffAccumulated]_vars


C15_Witness ==
    /\ SimDone /\ DomainParams(params)
    /\ params.numPaths = 2
    /\ \E a, b \in 1..2 :
          /\ FLt(result.finalPrices[a], params.K)
          /\ FGt(result.finalPrices[b], params.K)
          /\ sumPayoffs = FSub(result.finalPrices[b], params.K)
    /\ FGt(result.price, Num(0))


RECURSIVE PayoffSum(_, _, _, _)
\* the payoffs (or, with squared, their squares) of the first n terminal
\* prices, added in path order starting from 0
PayoffSum(prices, p, n, squared) ==
    IF n = 0 THEN Num(0)
    ELSE LET payoff == IntrinsicValue(p.optionType, prices[n], p.K)
         IN  FAdd(PayoffSum(prices, p, n - 1, squared),
                  IF squared THEN FMul(payoff, payoff) ELSE payoff)

\* C16: once all paths are processed, sumPayoffs and sumPayoffsSquared are
\* the sums over the numPaths paths of the payoff and of its square, each
\* path counted once, and the returned price is
\* exp(-r * T) * sumPayoffs / numPaths.
C16_SumsAndPrice ==
    (pc \in {"aggregate", "done"} /\ DomainParams(params)) =>
        /\ Len(finalPrices) = params.numPaths
        /\ sumPayoffs = PayoffSum(finalPrices, params, params.numPaths, FALSE)
        /\ sumPayoffsSquared = PayoffSum(finalPrices, params, params.numPaths, TRUE)
        /\ SimDone =>
              result.price = FMul(FExp(FMul(FNeg(params.r), params.T)),
                                  FDiv(sumPayoffs, Num(params.numPaths)))

C16_Witness ==
    /\ SimDone /\ DomainParams(params)
    /\ params.numPaths = 2
    /\ FGt(params.r, Num(0))
    /\ FGt(IntrinsicValue(params.optionType, finalPrices[1], params.K), Num(0))
    /\ FGt(IntrinsicValue(params.optionType, finalPrices[2], params.K), Num(0))
    /\ finalPrices[1] # finalPrices[2]
    /\ FLt(result.price, FDiv(sumPayoffs, Num(2)))


\* C17: the sample variance sumPayoffsSquared / numPaths - meanPayoff^2 is
\* clamped at zero when it is negative, before its square root is taken for
\* the standard error.
C17_VarianceClamped ==
    (SimDone /\ DomainParams(params)) =>
        LET n == Num(params.numPaths)
            mean == FDiv(sumPayoffs, n)
            raw == FSub(FDiv(sumPayoffsSquared, n), FMul(mean, mean))
            clamped == IF FLt(raw, Num(0)) THEN Num(0) ELSE raw
        IN  result.standardError =
                FMul(FDiv(FSqrt(clamped), FSqrt(n)),
                     FExp(FMul(FNeg(params.r), params.T)))


\* a step of the time loop: from the two variates to the updated state
UpdateStep == pc = "update" /\ pc' = "step"

\* In a step that starts from a negative variance state the variance enters
\* the square roots and the drifts as 0: the log-price moves by r * dt, the
\* variance by kappa * theta * dt, and neither becomes NaN.  The variance
\* state the step leaves is not floored; only the recorded sample is.
FullTruncation ==
    (UpdateStep /\ DomainParams(params)) =>
        /\ ~IsNaN(X') /\ ~IsNaN(v')
        /\ FLt(v, Num(0)) =>
              /\ X' = FAdd(X, FMul(params.r, dt))
              /\ v' = FAdd(v, FMul(FMul(params.kappa, params.theta), dt))
        /\ (isVisual /\ FLt(v', Num(0))) =>
              visualizationPaths'[Len(visualizationPaths')].vol = Num(0)

\* C18: in every step the variance used in the square root and in the drift
\* terms is vPrev = max(0, v), so no square root of a negative variance is
\* taken; the variance state v itself is not floored and may be negative
\* between steps.
C18_FullTruncation == [][FullTruncation]_vars

C18_Witness ==
    /\ pc = "update" /\ DomainParams(params)
    /\ t = 2
    /\ FLt(v, Num(0))
    /\ visualizationPaths[Len(visualizationPaths)].vol = Num(0)


\* the two updates of a step, both from the variance before the step
EulerStep ==
    (UpdateStep /\ DomainParams(params)) =>
        LET vPrev == FMax(Num(0), v)
            w1 == z1
            w2 == FAdd(FMul(params.rho, z1),
                       FMul(FSqrt(FSub(Num(1), FMul(params.rho, params.rho))), z2))
            half == Fin(5000)
        IN  /\ dt = FDiv(params.T, Num(params.timeSteps))
            /\ sqrtDt = FSqrt(dt)
            /\ v' = FAdd(FAdd(v, FMul(FMul(params.kappa,
                                           FSub(params.theta, vPrev)), dt)),
                         FMul(FMul(FMul(params.xi, FSqrt(vPrev)), sqrtDt), w2))
            /\ X' = FAdd(FAdd(X, FMul(FSub(params.r, FMul(half, vPrev)), dt)),
                         FMul(FMul(FSqrt(vPrev), sqrtDt), w1))
            /\ t' = t + 1

\* C19: in each step v becomes v + kappa*(theta - vPrev)*dt +
\* xi*sqrt(vPrev)*sqrt(dt)*w2 and X becomes X + (r - 0.5*vPrev)*dt +
\* sqrt(vPrev)*sqrt(dt)*w1, with vPrev = max(0, v) taken before v is updated,
\* w1 = z1 and w2 = rho*z1 + sqrt(1 - rho^2)*z2: the log-price update never
\* uses the variance already updated in the same step.
C19_UpdatesUseVarianceBeforeStep == [][EulerStep]_vars

C19_Witness ==
    /\ pc = "step" /\ DomainParams(params)
    /\ t = 3 /\ params.timeSteps = 2
    /\ FGt(params.xi, Num(0))
    /\ FGt(v, Num(0)) /\ v # params.v0
    /\ Len(visualizationPaths) = 3
    /\ visualizationPaths[2].vol # params.v0
    /\ visualizationPaths[3].vol = v


\* the number of calls of randn_bm that have returned when the invocation
\* is at path i, step t and position pc
VariatesDue ==
    LET perPath == 2 * params.timeSteps
    IN  CASE pc = "begin" -> 0
          [] pc = "path" -> i * perPath
          [] pc \in {"step", "z1_u", "z1_v"} -> i * perPath + 2 * (t - 1)
          [] pc \in {"z2_u", "z2_v"} -> i * perPath + 2 * (t - 1) + 1
          [] pc = "update" -> i * perPath + 2 * t
          [] pc = "payoff" -> (i + 1) * perPath
          [] OTHER -> params.numPaths * perPath

\* C20: each step consumes exactly two variates, z1 then z2, each returned
\* by its own call of randn_bm and computed from two uniform draws that no
\* other variate uses; nothing is reused across the two draws of a step,
\* across steps or across paths, and a run consumes exactly
\* 2 * numPaths * timeSteps variates.
C20_TwoFreshVariatesPerStep ==
    (observed /\ DomainParams(params)) =>
        /\ Len(zs) = VariatesDue
        /\ \A k \in 1..Len(zs) :
              /\ zs[k].u = 2 * k - 1
              /\ zs[k].v = 2 * k
        /\ Cardinality({zs[k].u : k \in 1..Len(zs)}
                       \cup {zs[k].v : k \in 1..Len(zs)}) = 2 * Len(zs)
        /\ pc = "update" => /\ z1 = zs[Len(zs) - 1].z
                            /\ z2 = zs[Len(zs)].z
        /\ SimDone => Len(zs) = 2 * params.numPaths * params.timeSteps

C20_Witness ==
    /\ SimDone /\ observed /\ run = 2
    /\ params.numPaths = 1 /\ params.timeSteps = 2
    /\ Len(zs) = 4
    /\ zs[1].z # zs[2].z /\ zs[1].z # zs[3].z
    /\ nUniforms = 8


RECURSIVE MeanReversion(_, _)
\* the variance after k steps of v <- v + kappa * (theta - max(0, v)) * dt
\* from v0
MeanReversion(p, k) ==
    IF k = 0 THEN p.v0
    ELSE LET w == MeanReversion(p, k - 1)
             floor == IF FLt(w, Num(0)) THEN Num(0) ELSE w
         IN  FAdd(w, FMul(FMul(p.kappa, FSub(p.theta, floor)),
                          FDiv(p.T, Num(p.timeSteps))))

\* C21: with xi = 0 the variance after k steps is the k-th iterate of
\* v <- v + kappa * (theta - max(0, v)) * dt from v0, the same for every
\* path and every sequence of random draws; if moreover v0 = theta >= 0 it
\* is theta at every step.
C21_DeterministicVariance ==
    (DomainParams(params) /\ params.xi = Num(0)) =>
        /\ pc \in {"step", "z1_u", "z1_v", "z2_u", "z2_v", "update", "payoff"} =>
              /\ v = MeanReversion(params, t - 1)
              /\ params.v0 = params.theta => v = params.theta
        /\ \A k \in 1..Len(visualizationPaths) :
              LET step == (k - 1) % (params.timeSteps + 1)
                  w == MeanReversion(params, step)
              IN  visualizationPaths[k].vol =
                      IF step = 0 THEN w ELSE FMax(Num(0), w)

C21_Witness ==
    /\ SimDone /\ DomainParams(params)
    /\ params.xi = Num(0) /\ params.v0 # params.theta
    /\ params.numPaths = 2 /\ params.timeSteps = 1
    /\ finalPrices[1] # finalPrices[2]
    /\ visualizationPaths[2].vol = visualizationPaths[4].vol
    /\ visualizationPaths[2].vol # params.v0


\* the two calls have returned, on records that differ in the option kind only
GkCallAndPut ==
    /\ GkReturned(1) /\ GkReturned(2)
    /\ gk[2].params = OtherKind(gk[1].params)

\* C22: gamma and vega are the same for a Call and a Put with otherwise
\* equal parameters.
C22_GammaVegaSameForBothKinds ==
    GkCallAndPut =>
        /\ gk[1].out.greeks.gamma = gk[2].out.greeks.gamma
        /\ gk[1].out.greeks.vega = gk[2].out.greeks.vega

C22_Witness ==
    /\ GkCallAndPut /\ DomainParams(gk[1].params)
    /\ IsFin(gk[1].out.greeks.gamma) /\ FGt(gk[1].out.greeks.gamma, Num(0))
    /\ FGt(gk[1].out.greeks.vega, Num(0))
    /\ gk[1].out.greeks.delta # gk[2].out.greeks.delta
    /\ gk[1].out.greeks.theta # gk[2].out.greeks.theta
    /\ gk[1].out.greeks.rho # gk[2].out.greeks.rho


\* the record of call c with its maturity replaced by the floor 0.0001
AtFloor(c) == [gk[c].params EXCEPT !.T = Fin(1)]

\* C23: a maturity of at most 0.0001 gives the sensitivities of maturity
\* 0.0001, a larger maturity is used as given, and the square root of the
\* maturity used is never zero.
C23_MaturityFloored ==
    \A c \in Calls : GkReturned(c) =>
        /\ FLe(gk[c].params.T, Fin(1)) =>
              gk[c].out.greeks = calculateGreeks(AtFloor(c), gk[c].currentPrice)
        /\ FGt(gk[c].params.T, Fin(1)) => SafeT(gk[c].params) = gk[c].params.T
        /\ FGt(FSqrt(SafeT(gk[c].params)), Num(0))

C23_Witness ==
    /\ GkReturned(1) /\ GkReturned(2)
    /\ gk[1].params.T = Num(0) /\ gk[1].params.theta # Num(0)
    /\ AllFinite(gk[1].out.greeks)
    /\ gk[1].out.greeks = calculateGreeks(AtFloor(1), gk[1].currentPrice)


\* the precision bits b of a returned call, read off its state partition 2b
BitsOf(c) == qm[c].out.metrics.qubitBreakdown.state \div 2

\* C24: the target error is 1 / sqrt(numPaths) and the precision bits are
\* the integer b = ceil(10 + log2(numPaths) / 2), never below 10: b - 10 is
\* the least e >= 0 with 2^(2e) >= numPaths.
C24_PrecisionBits ==
    \A c \in Calls :
        QmReturned(c) =>
            LET n == qm[c].params.numPaths
                e == BitsOf(c) - 10
            IN  /\ qm[c].out.metrics.estimatedQuantumError = [oneOverSqrtOf |-> n]
                /\ BitsOf(c) \in Nat /\ BitsOf(c) >= 10
                /\ 2 ^ (2 * e) >= n
                /\ \A j \in 0..(e - 1) : 2 ^ (2 * j) < n

C24_Witness ==
    /\ QmReturned(1) /\ QmReturned(2)
    /\ qm[1].params.numPaths = 1 /\ BitsOf(1) = 10
    /\ qm[2].params.numPaths = 1000 /\ BitsOf(2) = 15


C26_GroverIterationsAtMostPaths ==
    \A c \in Calls :
        (QmReturned(c) /\ qm[c].params.numPaths >= 1) =>
            /\ qm[c].out.metrics.groverIterations <= qm[c].params.numPaths
            /\ FLe(Num(1), qm[c].out.metrics.theoreticalSpeedup)

C26_Witness ==
    /\ QmReturned(1) /\ QmReturned(2)
    /\ qm[1].params.numPaths = 1
    /\ qm[1].out.metrics.groverIterations = 1
    /\ qm[1].out.metrics.theoreticalSpeedup = Num(1)
    /\ qm[2].params.numPaths = 2
    /\ qm[2].out.metrics.groverIterations = 2


\* numPaths and timeSteps are positive integers
PositiveShape == params.numPaths >= 1 /\ params.timeSteps >= 1

\* a pass of the first rejection loop that draws a nonzero number leaves it
NonzeroDrawLeaves ==
    (pc \in {"z1_u", "z2_u"} /\ bm_u' # Fin(0)) => pc' \in {"z1_v", "z2_v"}

\* C27: for positive integers numPaths and timeSteps the run reaches its
\* return, having done exactly numPaths * timeSteps step updates; each
\* rejection loop of the sampler is left once the uniform source returns a
\* nonzero number, which it eventually does.
C27_Terminates ==
    /\ PositiveShape => <>SimDone
    /\ [](SimDone /\ PositiveShape => nSteps = params.numPaths * params.timeSteps)
    /\ [][NonzeroDrawLeaves]_vars
    /\ (pc = "z1_u") ~> (pc = "z1_v")
    /\ (pc = "z1_v") ~> (pc = "z2_u")
    /\ (pc = "z2_u") ~> (pc = "z2_v")
    /\ (pc = "z2_v") ~> (pc = "update")

C27_Witness ==
    /\ SimDone /\ params.numPaths = 2 /\ params.timeSteps = 1 /\ nSteps = 2


\* the last sample recorded for visualized path j (counted from 0): every
\* visualized path has timeSteps + 1 samples
LastSample(j) == result.paths[(j + 1) * (params.timeSteps + 1)]

\* C28: with timeSteps >= 1, for every visualized path j < min(numPaths, 50)
\* the value of the path's last recorded sample is the terminal price
\* finalPrices[j] of that path.
C28_LastSampleIsFinalPrice ==
    (SimDone /\ PositiveShape) =>
        \A j \in 0..(Min(params.numPaths, pathsToVisualize) - 1) :
            /\ LastSample(j).pathId = j
            /\ LastSample(j).value = result.finalPrices[j + 1]

C28_Witness ==
    /\ SimDone /\ DomainParams(params)
    /\ params.numPaths = 1 /\ params.timeSteps = 2
    /\ Len(result.paths) = 3
    /\ LastSample(0).value = result.finalPrices[1]
    /\ LastSample(0).value # result.paths[2].value
    /\ LastSample(0).value # result.paths[1].value


\* the two displayed state variables are both unset, or hold the result and
\* the metrics that one call of runSimulation received for its parameters
SameCall ==
    /\ app.result.null = app.quantumMetrics.null
    /\ ~app.result.null =>
          /\ app.result.what = "SimulationResult"
          /\ app.quantumMetrics.what = "QuantumMetrics"
          /\ app.result.call = app.quantumMetrics.call
          /\ app.result.params = app.quantumMetrics.params

\* a step that changes result or quantumMetrics is the success of some
\* call's second request; it sets both from that call and returns the result
SetTogether ==
    (app'.result # app.result \/ app'.quantumMetrics # app.quantumMetrics) =>
        \E c \in 1..MaxStarts :
            /\ sims[c].pc = "metrics" /\ sims'[c].pc = "returned"
            /\ sims'[c].failed = "none"
            /\ app'.result = sims[c].res /\ app'.result.call = c
            /\ app'.quantumMetrics.call = c
            /\ sims'[c].ret = app'.result

\* a call whose first or second request fails returns null and leaves both
\* state variables as they were
FailureKeeps ==
    \A c \in 1..MaxStarts :
        (sims[c].failed = "none" /\ sims'[c].failed # "none") =>
            /\ sims'[c].pc = "returned" /\ sims'[c].ret = Null
            /\ app'.result = app.result
            /\ app'.quantumMetrics = app.quantumMetrics

\* C29: runSimulation sets result and quantumMetrics together and only
\* when both of its requests succeeded; when either fails it changes
\* neither and returns null; so, however calls overlap, the two displayed
\* values come from the same call and the same parameter record.
C29_ResultAndMetricsFromSameCall ==
    []SameCall /\ [][SetTogether /\ FailureKeeps]_vars

C29_Witness ==
    /\ ~app.result.null /\ app.result.call = 1 /\ app.quantumMetrics.call = 1
    /\ sims[2].pc = "returned" /\ sims[2].failed = "none"
    /\ sims[2].currentParams # sims[1].currentParams
    /\ sims[3].failed = "metrics"

\* a step in which the interval callback of the live feed has run
TickStep == app'.ticks # app.ticks

\* a tick while the market is not active changes neither S0 nor the history
ClosedTickKeeps ==
    (TickStep /\ ~IsMarketActive(app.marketStatus)) =>
        /\ app'.params.S0 = app.params.S0
        /\ app'.marketHistory = app.marketHistory

\* a tick while the market is active appends the new spot and keeps the
\* last HistoryLimit entries
ActiveTickAppends ==
    (TickStep /\ IsMarketActive(app.marketStatus)) =>
        LET h == app.marketHistory
            cut == IF Len(h) < HistoryLimit THEN 0 ELSE 1
        IN  /\ Len(app'.marketHistory) = Len(h) + 1 - cut
            /\ app'.marketHistory[Len(app'.marketHistory)] = app'.params.S0
            /\ \A k \in 1..(Len(app'.marketHistory) - 1) :
                  app'.marketHistory[k] = h[k + cut]

\* the end of a ticker change empties the history, which the feed, if on,
\* seeds anew
TickerChangeEmpties ==
    (app'.pending # app.pending /\ app'.pending \subseteq app.pending) =>
        app'.marketHistory =
            IF app.isLive THEN [k \in 1..SeedLength |-> app'.anchorPrice] ELSE <<>>

\* the history is empty or holds between SeedLength and HistoryLimit entries
HistoryBounded ==
    /\ Len(app.marketHistory) <= HistoryLimit
    /\ Len(app.marketHistory) = 0 \/ Len(app.marketHistory) >= SeedLength
    /\ app.isLive => Len(app.marketHistory) >= SeedLength

\* C30: after any sequence of ticks, feed toggles and ticker changes
\* marketHistory holds at most 30 entries (seeded with 20 when empty, one
\* appended per tick and the last 30 kept, emptied by a ticker change), and
\* a tick while the market is not active leaves S0 and marketHistory as
\* they were.
C30_MarketHistoryBounded ==
    []HistoryBounded
    /\ [][ClosedTickKeeps /\ ActiveTickAppends /\ TickerChangeEmpties]_vars

C30_Witness ==
    /\ Len(app.marketHistory) = HistoryLimit
    /\ app.ticks = 11
    /\ app.marketHistory[19] = app.anchorPrice
    /\ app.marketHistory[20] # app.anchorPrice
    /\ app.marketHistory[30] = app.params.S0

=============================================================================
